---- MODULE Spec2Model ----
(***************************************************************************)
(* Transport and session layer of the Entrez MCP Python SDK                *)
(* (sdk/python/entrez_sdk.py, class EntrezSDK).                            *)
(*                                                                         *)
(* Text is a sequence of tokens.  A token is a record: [ch |-> s] is a     *)
(* piece of literal text (one character or one word), [json |-> v,         *)
(* part |-> p] is a piece of the JSON serialisation of the value v: the    *)
(* whole document (p = 0) or its first (p = 1) or second (p = 2) half,     *)
(* the halves being separable by JSON whitespace.                          *)
(***************************************************************************)
EXTENDS Integers, Sequences, FiniteSets, TLC

None == "<None>"

Ch(s) == [ch |-> s]
Lit(s) == <<[ch |-> s]>>
LF == Ch("\n")
CR == Ch("\r")
SP == Ch(" ")

IsWs(tok) == "ch" \in DOMAIN tok /\ tok.ch \in {" ", "\n", "\r", "\t"}

(***************************************************************************)
(* JSON values as Python objects after json.loads.                         *)
(***************************************************************************)
JNull == [t |-> "null"]
JInt(n) == [t |-> "int", n |-> n]
JStr(s) == [t |-> "str", s |-> s]
JList(l) == [t |-> "list", l |-> l]
JDict(d) == [t |-> "dict", d |-> d]
JBool(b) == [t |-> "bool", b |-> b]
EmptyDict == JDict(<<>>)

IsDict(v) == v.t = "dict"
IsList(v) == v.t = "list"
IsStr(v) == v.t = "str"
HasKey(v, k) == k \in DOMAIN v.d
\* dict.get(k): the value, or None
Get(v, k) == IF HasKey(v, k) THEN v.d[k] ELSE JNull

\* bool(v) of a decoded value
Truthy(v) ==
    CASE v.t = "dict" -> DOMAIN v.d # {}
      [] v.t = "list" -> Len(v.l) > 0
      [] v.t = "str" -> Len(v.s) > 0
      [] v.t = "int" -> v.n # 0
      [] v.t = "bool" -> v.b
      [] OTHER -> FALSE

(***************************************************************************)
(* str.strip, str.lstrip, str.startswith, str.lower on token sequences.    *)
(***************************************************************************)
RECURSIVE LStrip(_)
LStrip(s) == IF s # <<>> /\ IsWs(Head(s)) THEN LStrip(Tail(s)) ELSE s

RECURSIVE RStrip(_)
RStrip(s) ==
    IF s # <<>> /\ IsWs(s[Len(s)]) THEN RStrip(SubSeq(s, 1, Len(s) - 1)) ELSE s

Strip(s) == RStrip(LStrip(s))

Lower(tok) ==
    IF "ch" \in DOMAIN tok /\ tok.ch \in {"DATA:", "Data:"} THEN Ch("data:") ELSE tok

ErrorMarker == Ch("<x-mark>")

(***************************************************************************)
(* json.loads on a token sequence: surrounding whitespace is skipped; the  *)
(* text must be one whole document, or the two halves of one document in   *)
(* order with only whitespace between them.                                *)
(***************************************************************************)
IsJson(tok) == "json" \in DOMAIN tok

RECURSIVE AllWs(_)
AllWs(s) == s = <<>> \/ (IsWs(Head(s)) /\ AllWs(Tail(s)))

JsonLoads(text) ==
    LET s == Strip(text) IN
    IF Len(s) = 1 /\ IsJson(s[1]) /\ s[1].part = 0
    THEN [ok |-> TRUE, value |-> s[1].json]
    ELSE IF /\ Len(s) >= 2
            /\ IsJson(s[1]) /\ s[1].part = 1
            /\ IsJson(s[Len(s)]) /\ s[Len(s)].part = 2
            /\ s[1].json = s[Len(s)].json
            /\ AllWs(SubSeq(s, 2, Len(s) - 1))
    THEN [ok |-> TRUE, value |-> s[1].json]
    ELSE [ok |-> FALSE]

(***************************************************************************)
(* str.replace('\r', ''), str.split('\n\n'), str.splitlines, '\n'.join.    *)
(***************************************************************************)
RECURSIVE RemoveCR(_)
RemoveCR(s) ==
    IF s = <<>> THEN <<>>
    ELSE IF Head(s) = CR THEN RemoveCR(Tail(s))
    ELSE <<Head(s)>> \o RemoveCR(Tail(s))

\* text.split('\n\n'): cur is the piece being collected
RECURSIVE SplitBlank(_, _)
SplitBlank(s, cur) ==
    IF s = <<>> THEN <<cur>>
    ELSE IF Len(s) >= 2 /\ s[1] = LF /\ s[2] = LF
    THEN <<cur>> \o SplitBlank(SubSeq(s, 3, Len(s)), <<>>)
    ELSE SplitBlank(Tail(s), Append(cur, Head(s)))

\* segment.splitlines(): a final line break opens no further line
RECURSIVE SplitLines(_, _)
SplitLines(s, cur) ==
    IF s = <<>> THEN (IF cur = <<>> THEN <<>> ELSE <<cur>>)
    ELSE IF Head(s) = LF
    THEN <<cur>> \o SplitLines(Tail(s), <<>>)
    ELSE SplitLines(Tail(s), Append(cur, Head(s)))

RECURSIVE JoinLF(_)
JoinLF(lines) ==
    IF lines = <<>> THEN <<>>
    ELSE IF Len(lines) = 1 THEN lines[1]
    ELSE lines[1] \o <<LF>> \o JoinLF(Tail(lines))

\* [segment.strip() for segment in normalized.split('\n\n') if segment.strip()]
RECURSIVE StripNonEmpty(_)
StripNonEmpty(pieces) ==
    IF pieces = <<>> THEN <<>>
    ELSE IF Strip(Head(pieces)) = <<>> THEN StripNonEmpty(Tail(pieces))
    ELSE <<Strip(Head(pieces))>> \o StripNonEmpty(Tail(pieces))

Segments(text) == StripNonEmpty(SplitBlank(RemoveCR(text), <<>>))

\* the inner loop taking one leading space off the value, where line 250
\* calls lstrip()
RECURSIVE DataLinesOneSpace(_)
DataLinesOneSpace(lines) ==
    IF lines = <<>> THEN <<>>
    ELSE LET stripped == Strip(Head(lines))
             value == Tail(stripped)
         IN IF stripped # <<>> /\ Lower(stripped[1]) = Ch("data:")
            THEN <<IF value # <<>> /\ Head(value) = SP THEN Tail(value) ELSE value>>
                    \o DataLinesOneSpace(Tail(lines))
            ELSE DataLinesOneSpace(Tail(lines))

\* the inner loop of _parse_sse_payload: the values of the data: lines
RECURSIVE DataLines(_)
DataLines(lines) ==
    IF lines = <<>> THEN <<>>
    ELSE LET stripped == Strip(Head(lines)) IN
         IF stripped # <<>> /\ Lower(stripped[1]) = Ch("data:")
         THEN <<LStrip(Tail(stripped))>> \o DataLines(Tail(lines))
         ELSE DataLines(Tail(lines))

SDKError(msg) == [ok |-> FALSE, exc |-> "EntrezSDKError", msg |-> msg]
Raised(exc) == [ok |-> FALSE, exc |-> exc, msg |-> <<>>]
Returned(v) == [ok |-> TRUE, value |-> v]

NoPayloadMessage == Lit("No JSON payload found in SSE response")

\* the outer loop going on after a payload has parsed: the last parseable
\* segment wins
RECURSIVE ParseSegmentsLast(_)
ParseSegmentsLast(segments) ==
    IF segments = <<>> THEN SDKError(NoPayloadMessage)
    ELSE LET data_lines == DataLines(SplitLines(Head(segments), <<>>))
             payload == JoinLF(data_lines)
             later == ParseSegmentsLast(Tail(segments))
         IN IF later.ok THEN later
            ELSE IF data_lines # <<>> /\ JsonLoads(payload).ok
            THEN Returned(JsonLoads(payload).value)
            ELSE later

\* the outer loop of _parse_sse_payload over the remaining segments
RECURSIVE ParseSegments(_)
ParseSegments(segments) ==
    IF segments = <<>> THEN SDKError(NoPayloadMessage)
    ELSE LET data_lines == DataLines(SplitLines(Head(segments), <<>>))
             payload == JoinLF(data_lines)
         IN IF data_lines = <<>> THEN ParseSegments(Tail(segments))
            ELSE IF JsonLoads(payload).ok THEN Returned(JsonLoads(payload).value)
            ELSE ParseSegments(Tail(segments))

\* _parse_sse_payload returning {} where line 261 raises
ParseSsePayloadLenient(text) ==
    IF ParseSegments(Segments(text)).ok THEN ParseSegments(Segments(text))
    ELSE Returned(EmptyDict)

_parse_sse_payload(text) == ParseSegments(Segments(text))

\* _parse_response_text without the test of lines 232-233
ParseResponseTextStrict(text) ==
    LET trimmed == Strip(text) IN
    IF JsonLoads(trimmed).ok THEN Returned(JsonLoads(trimmed).value)
    ELSE _parse_sse_payload(trimmed)

_parse_response_text(text) ==
    LET trimmed == Strip(text) IN
    IF trimmed = <<>> THEN Returned(EmptyDict)
    ELSE IF JsonLoads(trimmed).ok THEN Returned(JsonLoads(trimmed).value)
    ELSE _parse_sse_payload(trimmed)

(***************************************************************************)
(* Error messages are token sequences too; two further tokens stand for    *)
(* renderings of a decoded value: [dumps |-> v] is json.dumps(v) and       *)
(* [str |-> v] is the f-string rendering str(v) of a value that is not a   *)
(* string.                                                                 *)
(***************************************************************************)
Dumps(v) == <<[dumps |-> v]>>
Format(v) == IF IsStr(v) THEN v.s ELSE <<[str |-> v]>>

_format_context(context) ==
    LET stripped == Strip(context) IN
    IF stripped # <<>> /\ stripped[1] = Ch("[") /\ stripped[Len(stripped)] = Ch("]")
    THEN stripped
    ELSE Lit("[") \o stripped \o Lit("]")

\* the condition without its test of the block type
IsSentinelBlockAnyType(block) ==
    /\ IsDict(block)
    /\ IsStr(Get(block, "text"))
    /\ LET text == Strip(Get(block, "text").s) IN text # <<>> /\ text[1] = ErrorMarker

\* the condition both loops over content test on a block
IsSentinelBlock(block) ==
    /\ IsDict(block)
    /\ Get(block, "type") = JStr(Lit("text"))
    /\ IsStr(Get(block, "text"))
    /\ LET text == Strip(Get(block, "text").s) IN text # <<>> /\ text[1] = ErrorMarker

_is_error_payload(payload) ==
    LET content == Get(payload, "content") IN
    IF ~IsList(content) THEN FALSE
    ELSE \E i \in 1..Len(content.l) : IsSentinelBlock(content.l[i])

\* ' '.join(block.get('text', '').strip() for block in content if ...)
RECURSIVE JoinTexts(_)
JoinTexts(blocks) ==
    IF blocks = <<>> THEN <<>>
    ELSE LET block == Head(blocks)
             rest == JoinTexts(Tail(blocks))
             more == \E i \in 2..Len(blocks) :
                        IsDict(blocks[i]) /\ IsStr(Get(blocks[i], "text"))
         IN IF IsDict(block) /\ IsStr(Get(block, "text"))
            THEN Strip(Get(block, "text").s) \o (IF more THEN <<SP>> ELSE <<>>) \o rest
            ELSE rest

\* _format_payload_error without its first loop: the joined text of all blocks
FormatPayloadErrorJoined(payload) ==
    LET content == Get(payload, "content") IN
    IF ~IsList(content) THEN Lit("Unknown error")
    ELSE LET combined == Strip(JoinTexts(content.l)) IN
         IF combined # <<>> THEN combined ELSE Lit("Unknown error")

_format_payload_error(payload) ==
    LET content == Get(payload, "content") IN
    IF ~IsList(content) THEN Lit("Unknown error")
    ELSE IF \E i \in 1..Len(content.l) : IsSentinelBlock(content.l[i])
    THEN LET first == CHOOSE i \in 1..Len(content.l) :
                        /\ IsSentinelBlock(content.l[i])
                        /\ \A j \in 1..(i - 1) : ~IsSentinelBlock(content.l[j])
         IN Strip(Get(content.l[first], "text").s)
    ELSE LET combined == Strip(JoinTexts(content.l)) IN
         IF combined # <<>> THEN combined ELSE Lit("Unknown error")

\* the reshaping with the spread in the other order: a content key of
\* structuredContent survives
NormalizeKeepsStructuredContent(payload) ==
    IF IsDict(payload) /\ HasKey(payload, "structuredContent")
    THEN LET structured == payload.d["structuredContent"] IN
         IF HasKey(payload, "content") /\ IsDict(structured)
         THEN JDict([k \in DOMAIN structured.d \cup {"content"} |->
                        IF k \in DOMAIN structured.d THEN structured.d[k]
                        ELSE payload.d["content"]])
         ELSE IF HasKey(payload, "content")
         THEN JDict([k \in {"content"} |-> payload.d["content"]])
         ELSE structured
    ELSE payload

\* lines 199-212 of _request_payload: the value returned for a payload
Normalize(payload) ==
    IF IsDict(payload) /\ HasKey(payload, "structuredContent")
    THEN LET structured == payload.d["structuredContent"] IN
         IF HasKey(payload, "content") /\ IsDict(structured)
         THEN JDict([k \in DOMAIN structured.d \cup {"content"} |->
                        IF k = "content" THEN payload.d["content"] ELSE structured.d[k]])
         ELSE IF HasKey(payload, "content")
         THEN JDict([k \in {"content"} |-> payload.d["content"]])
         ELSE structured
    ELSE payload

\* 'error' in result, for a truthy result
ContainsError(result) ==
    CASE IsDict(result) -> [ok |-> TRUE, value |-> HasKey(result, "error")]
      [] IsList(result) ->
            [ok |-> TRUE, value |-> \E i \in 1..Len(result.l) : result.l[i] = JStr(Lit("error"))]
      [] IsStr(result) ->
            [ok |-> TRUE, value |-> \E i \in 1..Len(result.s) : result.s[i] = Ch("error")]
      [] OTHER -> [ok |-> FALSE]

\* the steps of lines 188-212 with the sentinel test made before the test
\* of the error field
HandleResultSentinelFirst(label, result) ==
    LET payload == IF IsDict(result) THEN Get(result, "result") ELSE JNull IN
    IF Truthy(payload) /\ IsDict(payload) /\ _is_error_payload(payload)
    THEN SDKError(label \o <<SP>> \o _format_payload_error(payload))
    ELSE IF Truthy(result) /\ ~ContainsError(result).ok THEN Raised("TypeError")
    ELSE IF Truthy(result) /\ ContainsError(result).value
    THEN IF ~IsDict(result) THEN Raised("TypeError")
         ELSE LET error == result.d["error"] IN
              IF ~IsDict(error) THEN Raised("AttributeError")
              ELSE LET error_msg == IF HasKey(error, "message")
                                    THEN Format(error.d["message"])
                                    ELSE Dumps(error)
                   IN SDKError(label \o Lit(" MCP Error: ") \o error_msg)
    ELSE Returned(Normalize(payload))

\* lines 188-212 of _request_payload, for a decoded result
HandleResult(label, result) ==
    IF Truthy(result) /\ ~ContainsError(result).ok THEN Raised("TypeError")
    ELSE IF Truthy(result) /\ ContainsError(result).value
    THEN IF ~IsDict(result) THEN Raised("TypeError")
         ELSE LET error == result.d["error"] IN
              IF ~IsDict(error) THEN Raised("AttributeError")
              ELSE LET error_msg == IF HasKey(error, "message")
                                    THEN Format(error.d["message"])
                                    ELSE Dumps(error)
                   IN SDKError(label \o Lit(" MCP Error: ") \o error_msg)
    ELSE LET payload == IF IsDict(result) THEN Get(result, "result") ELSE JNull IN
         IF Truthy(payload) /\ IsDict(payload) /\ _is_error_payload(payload)
         THEN SDKError(label \o <<SP>> \o _format_payload_error(payload))
         ELSE Returned(Normalize(payload))

\* _request_payload testing response.status > 400
HandleResponseAbove400(context, status, reason, response_text) ==
    LET label == _format_context(context) IN
    IF status > 400
    THEN LET message == IF response_text # <<>> THEN response_text ELSE reason IN
         SDKError(label \o Lit(" HTTP ") \o Lit(ToString(status)) \o Lit(": ") \o message)
    ELSE LET parsed == _parse_response_text(response_text) IN
         IF ~parsed.ok THEN parsed
         ELSE HandleResult(label, parsed.value)

\* lines 182-212 of _request_payload, for a response whose body was read
HandleResponse(context, status, reason, response_text) ==
    LET label == _format_context(context) IN
    IF status >= 400
    THEN LET message == IF response_text # <<>> THEN response_text ELSE reason IN
         SDKError(label \o Lit(" HTTP ") \o Lit(ToString(status)) \o Lit(": ") \o message)
    ELSE LET parsed == _parse_response_text(response_text) IN
         IF ~parsed.ok THEN parsed
         ELSE HandleResult(label, parsed.value)

\* line 213-214: aiohttp.ClientError while posting or reading the body
NetworkError(context) ==
    SDKError(_format_context(context) \o Lit(" Network error: ") \o Lit("ClientError"))

(***************************************************************************)
(* Bounds of the model.                                                    *)
(***************************************************************************)
MaxClients == 2
MaxTasks == 2
MaxInvokes == 2
MaxConnOps == 1

Clients == 1..MaxClients
Slots == 1..MaxTasks

(***************************************************************************)
(* What the server may answer.  A session header is absent (None), empty,  *)
(* or one of two ids.                                                      *)
(***************************************************************************)
SessionIds == {"s1", "s2"}
HeaderValues == {None, ""} \cup SessionIds

Reason(status) ==
    CASE status = 200 -> Lit("OK")
      [] status = 400 -> Lit("Bad Request")
      [] status = 404 -> Lit("Not Found")
      [] OTHER -> Lit("Unknown")

Whole(v) == <<[json |-> v, part |-> 0]>>
Half1(v) == [json |-> v, part |-> 1]
Half2(v) == [json |-> v, part |-> 2]

TextBlock(text) == JDict([k \in {"type", "text"} |-> IF k = "type" THEN JStr(Lit("text")) ELSE JStr(text)])
Envelope(key, v) == JDict([k \in {"jsonrpc", "id", key} |->
                       IF k = "jsonrpc" THEN JStr(Lit("2.0")) ELSE IF k = "id" THEN JInt(1) ELSE v])

OkResult == JDict([k \in {"content"} |-> JList(<<TextBlock(Lit("ok"))>>)])
OkBody == Whole(Envelope("result", OkResult))
ErrorObject == JDict([k \in {"code", "message"} |->
                  IF k = "code" THEN JInt(-32602) ELSE JStr(Lit("Invalid database"))])
ErrorBody == Whole(Envelope("error", ErrorObject))
GarbageBody == Lit("<html>")

VARIABLES session_id, _session, scope, conns, tasks, last, obs, invokes, connOps

vars == <<session_id, _session, scope, conns, tasks, last, obs, invokes, connOps>>

NoOutcome == [pending |-> TRUE]

\* an invoke: where it stands (pc), the tool it calls (context), the request
\* it has in flight (method, sid: the session header sent, conn), the session
\* id _ensure_session saw (gate), the requests it has sent (inits, calls),
\* and the response being handled (status, body, read); the params _call was
\* given and the arguments of the tools/call request it sent; the method of
\* the SDK the caller used (api) and the ids it passed to that method
IdleTask == [pc |-> "idle", client |-> 0, context |-> <<>>, method |-> None,
             sid |-> None, gate |-> None, inits |-> 0, calls |-> 0, conn |-> 0,
             status |-> 0, body |-> <<>>, read |-> FALSE, outcome |-> NoOutcome,
             params |-> <<>>, arguments |-> <<>>, api |-> "_call", ids |-> JNull]

\* the wire of one client: the initialize requests it sent; the first and the
\* latest session id its responses carried; whether a handshake of the client
\* has completed; whether two of its invokes ever overlapped
NoObs == [nInit |-> 0, first |-> None, latest |-> None, initOk |-> FALSE,
          overlap |-> FALSE]

Live == DOMAIN session_id
Busy(c) == {k \in Slots : tasks[c][k].pc # "idle"}
Free(c) == Slots \ Busy(c)

\* a truthy Optional[str]
Held(sid) == sid # None /\ sid # ""

Init ==
    /\ session_id = <<>>
    /\ _session = <<>>
    /\ scope = <<>>
    /\ conns = <<>>
    /\ tasks = <<>>
    /\ last = IdleTask
    /\ obs = <<>>
    /\ invokes = 0
    /\ connOps = 0

\* EntrezSDK.__init__
Construct(c) ==
    /\ c \notin Live
    /\ c = Cardinality(Live) + 1
    /\ session_id' = session_id @@ (c :> None)
    /\ _session' = _session @@ (c :> 0)
    /\ scope' = scope @@ (c :> 0)
    /\ conns' = conns @@ (c :> <<>>)
    /\ tasks' = tasks @@ (c :> [k \in Slots |-> IdleTask])
    /\ obs' = obs @@ (c :> NoObs)
    /\ UNCHANGED <<last, invokes, connOps>>

\* _build_headers without the session header
BuildHeadersNoSession(sid) ==
    [h \in {"Content-Type", "Accept", "MCP-Protocol-Version"} |->
        CASE h = "Content-Type" -> "application/json"
          [] h = "Accept" -> "application/json, text/event-stream"
          [] OTHER -> "2025-11-25"]

_build_headers(sid) ==
    LET headers == [h \in {"Content-Type", "Accept", "MCP-Protocol-Version"} |->
                      CASE h = "Content-Type" -> "application/json"
                        [] h = "Accept" -> "application/json, text/event-stream"
                        [] OTHER -> "2025-11-25"]
    IN IF Held(sid) THEN headers @@ ("Mcp-Session-Id" :> sid) ELSE headers

\* the Mcp-Session-Id header of a request, None when it has none
SessionHeader(headers) ==
    IF "Mcp-Session-Id" \in DOMAIN headers THEN headers["Mcp-Session-Id"] ELSE None

\* _extract_session_id keeping the first session id it stored
ExtractSessionIdOnce(ids, c, new_session_id) ==
    IF Held(new_session_id) /\ ~Held(ids[c]) THEN [ids EXCEPT ![c] = new_session_id] ELSE ids

\* _extract_session_id storing into an attribute all clients share
ExtractSessionIdShared(ids, c, new_session_id) ==
    IF Held(new_session_id) THEN [d \in DOMAIN ids |-> new_session_id] ELSE ids

\* _extract_session_id assigning whatever the header holds, None included
ExtractSessionIdAlways(ids, c, new_session_id) == [ids EXCEPT ![c] = new_session_id]

\* the session ids held after observing a response's session header
_extract_session_id(ids, c, new_session_id) ==
    IF Held(new_session_id) THEN [ids EXCEPT ![c] = new_session_id] ELSE ids

\* _ensure_session making the handshake on every invoke
EnsureSessionAlways(c) == TRUE

\* _ensure_session with a single-flight guard: no second handshake while one
\* is in flight
EnsureSessionSingleFlight(c) ==
    ~Held(session_id[c]) /\ \A k \in Slots : tasks[c][k].method # "initialize"

\* _ensure_session with a sticky flag: no handshake once one has been sent
EnsureSessionOnce(c) == ~Held(session_id[c]) /\ obs[c].nInit = 0

\* TRUE when the handshake has to be made
_ensure_session(c) == ~Held(session_id[c])

\* the comprehension of line 141 filtering on truthiness (if v)
CleanedParamsTruthy(params) ==
    [k \in {j \in DOMAIN params : Truthy(params[j])} |-> params[k]]

\* line 141: {k: v for k, v in params.items() if v is not None}
cleaned_params(params) ==
    [k \in {j \in DOMAIN params : params[j] # JNull} |-> params[k]]

\* the handshake request labelled with the tool name of its invoke
ContextToolName(task) == task.context

\* the context _request_payload is called with for the request of a task
Context(task) == IF task.method = "initialize" THEN Lit("initialize") ELSE task.context

\* what the caller of an invoke gets, with what the invoke did
Finished(task, outcome) ==
    [task EXCEPT !.pc = "done", !.outcome = outcome, !.client = 0, !.sid = None, !.conn = 0]

(***************************************************************************)
(* _request_payload up to the suspension in session.post (lines 169-179):  *)
(* _get_session opens a connection when none is referenced, the headers    *)
(* are built from the session id held now, and the request goes out.  A    *)
(* closed aiohttp.ClientSession refuses the request with RuntimeError.     *)
(* conns[c][i] is TRUE when the i-th connection of client c is closed.     *)
(***************************************************************************)
Post(c, k, task, method) ==
    LET open == _session[c] = 0
        conn == IF open THEN Len(conns[c]) + 1 ELSE _session[c]
        conns1 == IF open THEN Append(conns[c], FALSE) ELSE conns[c]
        headers == _build_headers(session_id[c])
        request == [task EXCEPT !.method = method, !.conn = conn,
                                !.sid = SessionHeader(headers),
                                !.arguments = IF method = "tools/call"
                                              THEN cleaned_params(task.params)
                                              ELSE @]
    IN /\ conns' = [conns EXCEPT ![c] = conns1]
       /\ _session' = [_session EXCEPT ![c] = conn]
       /\ IF conns1[conn]
          THEN /\ tasks' = [tasks EXCEPT ![c][k] = IdleTask]
               /\ last' = Finished(request, Raised("RuntimeError"))
               /\ obs' = [obs EXCEPT ![c].overlap = @ \/ Busy(c) \ {k} # {}]
          ELSE /\ tasks' = [tasks EXCEPT ![c][k] =
                              [request EXCEPT
                                 !.pc = "headers",
                                 !.inits = @ + (IF method = "initialize" THEN 1 ELSE 0),
                                 !.calls = @ + (IF method = "tools/call" THEN 1 ELSE 0)]]
               /\ last' = last
               /\ obs' = [obs EXCEPT
                            ![c].overlap = @ \/ Busy(c) \ {k} # {},
                            ![c].nInit = @ + (IF method = "initialize" THEN 1 ELSE 0)]

\* EntrezSDK._call up to its first suspension: _ensure_session, then the
\* handshake request or, when a session id is held, the tools/call request
_call(c, k, tool_name, params, api, ids) ==
    /\ c \in Live
    /\ k \in Free(c) /\ \A j \in Free(c) : k <= j
    /\ invokes' = invokes + 1
    /\ LET task == [IdleTask EXCEPT !.client = c, !.context = tool_name,
                                    !.gate = session_id[c], !.params = params,
                                    !.api = api, !.ids = ids]
       IN IF _ensure_session(c)
          THEN Post(c, k, task, "initialize")
          ELSE Post(c, k, task, "tools/call")
    /\ UNCHANGED <<session_id, scope, connOps>>

\* an invoke without parameters, as get_api_key_status makes (lines 303-305)
StartInvoke(c, k, tool_name) == _call(c, k, tool_name, <<>>, "_call", JNull)

(***************************************************************************)
(* The methods that take ids: a str or a list of str, as their signatures  *)
(* declare.  Each frames the params of its tool and goes through _call.    *)
(***************************************************************************)
\* ','.join(ids) for a list of strings
RECURSIVE JoinComma(_)
JoinComma(items) ==
    IF items = <<>> THEN <<>>
    ELSE IF Len(items) = 1 THEN items[1].s
    ELSE items[1].s \o <<Ch(",")>> \o JoinComma(Tail(items))

\* str(ids) whatever ids is
IdsStrAlwaysStr(ids) == JStr(Format(ids))

\* ids_str = ','.join(ids) if isinstance(ids, list) else str(ids)
ids_str(ids) == IF IsList(ids) THEN JStr(JoinComma(ids.l)) ELSE JStr(Format(ids))

summary(database, ids, retmax, compact_mode, detail_level, max_tokens) ==
    [tool |-> Lit("entrez_query"),
     params |-> [operation |-> JStr(Lit("summary")), database |-> database,
                 ids |-> ids_str(ids), retmax |-> retmax, compact_mode |-> compact_mode,
                 detail_level |-> detail_level, max_tokens |-> max_tokens]]

fetch(database, ids, rettype, intended_use, detail_level) ==
    [tool |-> Lit("entrez_query"),
     params |-> [operation |-> JStr(Lit("fetch")), database |-> database,
                 ids |-> ids_str(ids), rettype |-> rettype, intended_use |-> intended_use,
                 detail_level |-> detail_level]]

link(database, ids, dbfrom, linkname) ==
    [tool |-> Lit("entrez_query"),
     params |-> [operation |-> JStr(Lit("link")), database |-> database,
                 ids |-> ids_str(ids), dbfrom |-> dbfrom, linkname |-> linkname]]

post(database, ids, usehistory) ==
    [tool |-> Lit("entrez_query"),
     params |-> [operation |-> JStr(Lit("post")), database |-> database,
                 ids |-> ids_str(ids), usehistory |-> usehistory]]

fetch_and_stage(database, ids, rettype, force_direct, include_raw) ==
    [tool |-> Lit("entrez_data"),
     params |-> [operation |-> JStr(Lit("fetch_and_stage")), database |-> database,
                 ids |-> ids_str(ids), rettype |-> rettype, force_direct |-> force_direct,
                 include_raw |-> include_raw]]

convert_pmc_ids(ids, versions) ==
    [tool |-> Lit("entrez_external"),
     params |-> [service |-> JStr(Lit("pmc")), operation |-> JStr(Lit("id_convert")),
                 ids |-> ids_str(ids), versions |-> versions]]

export_citations(ids, citation_format) ==
    [tool |-> Lit("entrez_external"),
     params |-> [service |-> JStr(Lit("pmc")), operation |-> JStr(Lit("citation_export")),
                 ids |-> ids_str(ids), citation_format |-> citation_format]]

IdMethods == {"summary", "fetch", "link", "post", "fetch_and_stage", "convert_pmc_ids",
              "export_citations"}

\* the call a method makes when only database, ids and (summary, fetch)
\* detail_level are passed: the other arguments take their defaults
MethodCall(api, database, ids, detail_level) ==
    CASE api = "summary" -> summary(database, ids, JNull, JBool(FALSE), detail_level, JNull)
      [] api = "fetch" -> fetch(database, ids, JNull, JNull, detail_level)
      [] api = "link" -> link(database, ids, JNull, JNull)
      [] api = "post" -> post(database, ids, JStr(Lit("y")))
      [] api = "fetch_and_stage" ->
            fetch_and_stage(database, ids, JStr(Lit("xml")), JBool(FALSE), JBool(FALSE))
      [] api = "convert_pmc_ids" -> convert_pmc_ids(ids, JStr(Lit("no")))
      [] OTHER -> export_citations(ids, JStr(Lit("ris")))

\* one of these methods up to the first suspension of its _call
IdCall(c, k, api, database, ids, detail_level) ==
    LET call == MethodCall(api, database, ids, detail_level) IN
    _call(c, k, call.tool, call.params, api, ids)

\* fetch_and_stage after its _call has returned (lines 504-508)
StageResult(result) ==
    IF ~IsDict(result) THEN Raised("AttributeError")
    ELSE IF Truthy(Get(result, "data_access_id"))
    THEN Returned([t |-> "DataStaging", data_access_id |-> result.d["data_access_id"],
                   staging_result |-> result])
    ELSE Returned(result)

\* the response head arrives (lines 179-180): _extract_session_id
RecvHeaders(c, k, status, header) ==
    /\ c \in Live
    /\ tasks[c][k].pc = "headers"
    /\ session_id' = _extract_session_id(session_id, c, header)
    /\ tasks' = [tasks EXCEPT ![c][k].pc = "body", ![c][k].status = status]
    /\ obs' = [obs EXCEPT ![c].first = IF @ = None /\ Held(header) THEN header ELSE @,
                          ![c].latest = IF Held(header) THEN header ELSE @]
    /\ UNCHANGED <<_session, scope, conns, last, invokes, connOps>>

\* the body has been read (lines 182-212); a handshake that succeeded
\* returns into _call, any other outcome ends the invoke
RecvBody(c, k, response_text) ==
    /\ c \in Live
    /\ tasks[c][k].pc = "body"
    /\ LET task == [tasks[c][k] EXCEPT !.body = response_text, !.read = TRUE]
           returned == HandleResponse(Context(task), task.status, Reason(task.status),
                                      response_text)
           outcome == IF /\ task.api = "fetch_and_stage" /\ task.method = "tools/call"
                         /\ returned.ok
                      THEN StageResult(returned.value)
                      ELSE returned
       IN IF task.method = "initialize" /\ outcome.ok
          THEN /\ tasks' = [tasks EXCEPT ![c][k] =
                              [task EXCEPT !.pc = "initialized", !.status = 0,
                                           !.body = <<>>, !.read = FALSE]]
               /\ last' = last
               /\ obs' = [obs EXCEPT ![c].initOk = TRUE]
          ELSE /\ tasks' = [tasks EXCEPT ![c][k] = IdleTask]
               /\ last' = Finished(task, outcome)
               /\ obs' = obs
    /\ UNCHANGED <<session_id, _session, scope, conns, invokes, connOps>>

\* aiohttp.ClientError from session.post or from response.text() (line 213)
NetFail(c, k) ==
    /\ c \in Live
    /\ tasks[c][k].pc \in {"headers", "body"}
    /\ tasks' = [tasks EXCEPT ![c][k] = IdleTask]
    /\ last' = Finished(tasks[c][k], NetworkError(Context(tasks[c][k])))
    /\ UNCHANGED <<session_id, _session, scope, conns, obs, invokes, connOps>>

\* _call after _ensure_session has returned (lines 141-145)
PostCall(c, k) ==
    /\ c \in Live
    /\ tasks[c][k].pc = "initialized"
    /\ Post(c, k, tasks[c][k], "tools/call")
    /\ UNCHANGED <<session_id, scope, invokes, connOps>>

\* EntrezSDK.__aenter__
AEnter(c) ==
    /\ c \in Live
    /\ conns' = [conns EXCEPT ![c] = Append(@, FALSE)]
    /\ _session' = [_session EXCEPT ![c] = Len(conns[c]) + 1]
    /\ scope' = [scope EXCEPT ![c] = @ + 1]
    /\ connOps' = connOps + 1
    /\ UNCHANGED <<session_id, tasks, last, obs, invokes>>

\* EntrezSDK.__aexit__
AExit(c) ==
    /\ c \in Live
    /\ scope[c] > 0
    /\ scope' = [scope EXCEPT ![c] = @ - 1]
    /\ conns' = IF _session[c] # 0 THEN [conns EXCEPT ![c][_session[c]] = TRUE] ELSE conns
    /\ UNCHANGED <<session_id, _session, tasks, last, obs, invokes, connOps>>

\* EntrezSDK.close
Close(c) ==
    /\ c \in Live
    /\ _session[c] # 0
    /\ conns' = [conns EXCEPT ![c][_session[c]] = TRUE]
    /\ _session' = [_session EXCEPT ![c] = 0]
    /\ connOps' = connOps + 1
    /\ UNCHANGED <<session_id, scope, tasks, last, obs, invokes>>

ToolNames == {Lit("entrez_query"), Lit("system_api_key_status")}
Tools == {Lit("entrez_query")}
Statuses == {200, 404}
Bodies == {OkBody}

Next ==
    \/ \E c \in Clients : Construct(c)
    \/ \E c \in Clients, k \in Slots, tool_name \in Tools :
          invokes < MaxInvokes /\ StartInvoke(c, k, tool_name)
    \/ \E c \in Clients, k \in Slots, status \in Statuses, header \in HeaderValues :
          RecvHeaders(c, k, status, header)
    \/ \E c \in Clients, k \in Slots, response_text \in Bodies : RecvBody(c, k, response_text)
    \/ \E c \in Clients, k \in Slots : NetFail(c, k)
    \/ \E c \in Clients, k \in Slots : PostCall(c, k)
    \/ \E c \in Clients : connOps < MaxConnOps /\ AEnter(c)
    \/ \E c \in Clients : AExit(c)
    \/ \E c \in Clients : connOps < MaxConnOps /\ Close(c)

Spec == Init /\ [][Next]_vars

(***************************************************************************)
(* One invoke of one client against every shape of response: the bodies    *)
(* the pipeline of _request_payload tells apart.                           *)
(***************************************************************************)
MaxPipelineInvokes == 1

SentinelText == <<SP, ErrorMarker, Ch(" Invalid database: invalid_database"), SP>>
SentinelResult == JDict([k \in {"content"} |-> JList(<<TextBlock(SentinelText)>>)])
LateSentinelResult ==
    JDict([k \in {"content"} |-> JList(<<TextBlock(Lit("note")), TextBlock(SentinelText)>>)])
OtherSentinelText == <<ErrorMarker, Ch(" Rate limit exceeded")>>
TwoSentinelResult ==
    JDict([k \in {"content"} |->
             JList(<<TextBlock(Lit("note")), TextBlock(OtherSentinelText),
                     TextBlock(SentinelText)>>)])
StructuredResult ==
    JDict([k \in {"structuredContent", "content"} |->
             IF k = "content" THEN JList(<<TextBlock(Lit("ok"))>>)
             ELSE JDict([j \in {"a", "content"} |->
                           IF j = "a" THEN JInt(1) ELSE JStr(Lit("inner"))])])
\* structuredContent alone; structuredContent that is no object, with and
\* without content beside it
StructuredOnlyResult ==
    JDict([k \in {"structuredContent"} |->
             JDict([j \in {"a", "b"} |-> IF j = "a" THEN JInt(1) ELSE JStr(Lit("x"))])])
StructuredListResult ==
    JDict([k \in {"structuredContent", "content"} |->
             IF k = "content" THEN JList(<<TextBlock(Lit("ok"))>>)
             ELSE JList(<<JInt(1), JInt(2)>>)])
StructuredStringResult == JDict([k \in {"structuredContent"} |-> JStr(Lit("x"))])
\* the marker where it is no sentinel: in a block that is not of type text,
\* after other text, in a content that is a block and not a list of blocks
MarkerInImageResult ==
    JDict([k \in {"content"} |->
             JList(<<JDict([j \in {"type", "text"} |->
                              IF j = "type" THEN JStr(Lit("image")) ELSE JStr(SentinelText)])>>)])
MarkerInsideTextResult ==
    JDict([k \in {"content"} |->
             JList(<<TextBlock(<<Ch("note"), SP, ErrorMarker, Ch(" Invalid database")>>)>>)])
MarkerNotInListResult == JDict([k \in {"content"} |-> TextBlock(SentinelText)])

\* a sentinel in content beside structuredContent
SentinelStructuredResult ==
    JDict([k \in {"structuredContent", "content"} |->
             IF k = "content" THEN JList(<<TextBlock(SentinelText)>>)
             ELSE JDict([j \in {"a"} |-> JInt(1)])])
ErrorAndResult(error, result) ==
    JDict([k \in {"jsonrpc", "id", "error", "result"} |->
             CASE k = "jsonrpc" -> JStr(Lit("2.0"))
               [] k = "id" -> JInt(1)
               [] k = "error" -> error
               [] OTHER -> result])

JsonDocuments ==
    { Envelope("result", OkResult),
      Envelope("result", SentinelResult),
      Envelope("result", LateSentinelResult),
      Envelope("result", TwoSentinelResult),
      Envelope("result", StructuredResult),
      Envelope("result", StructuredOnlyResult),
      Envelope("result", StructuredListResult),
      Envelope("result", StructuredStringResult),
      Envelope("result", JNull),
      Envelope("error", ErrorObject),
      Envelope("error", JDict([k \in {"code"} |-> JInt(-32000)])),
      Envelope("error", JStr(Lit("Invalid database"))),
      Envelope("result", SentinelStructuredResult),
      Envelope("result", MarkerInImageResult),
      Envelope("result", MarkerInsideTextResult),
      Envelope("result", MarkerNotInListResult),
      ErrorAndResult(ErrorObject, SentinelResult),
      ErrorAndResult(JStr(Lit("Invalid database")), SentinelResult),
      ErrorAndResult(JNull, OkResult),
      EmptyDict,
      JDict([k \in {"jsonrpc", "id"} |-> IF k = "jsonrpc" THEN JStr(Lit("2.0")) ELSE JInt(1)]),
      JList(<<JStr(Lit("error"))>>),
      JInt(5) }

\* an event stream whose second segment carries the document in two data:
\* lines, after a segment without data and with a carriage return
SseBody(v) ==
    <<Ch(": ping"), CR, LF, LF,
      Ch("event: message"), LF, Ch("data:"), SP, Half1(v), LF,
      Ch("DATA:"), SP, SP, Half2(v), LF, LF>>

\* an event stream of four segments: a comment, a data: line that is no
\* JSON, the document v, the document w
SseStream(v, w) ==
    <<Ch(": ping"), LF, LF,
      Ch("data:"), SP, Ch("<html>"), LF, LF,
      Ch("event: message"), LF, Ch("data:"), SP>> \o Whole(v) \o <<LF, LF,
      Ch("data:")>> \o Whole(w) \o <<LF, LF>>

PipelineBodies ==
    {Whole(v) : v \in JsonDocuments}
      \cup {SseBody(Envelope("result", OkResult)), SseBody(Envelope("error", ErrorObject))}
      \cup {SseStream(Envelope("result", OkResult), Envelope("error", ErrorObject)),
            SseStream(Envelope("error", ErrorObject), Envelope("result", OkResult))}
      \cup {<<>>, <<SP, LF>>, GarbageBody, <<Ch("data:"), SP, Ch("<html>"), LF, LF>>}
      \cup {<<Half1(Envelope("result", OkResult))>>,
            <<Ch(": ping"), LF, LF, Ch("event: message"), LF, LF>>}

PipelineStatuses == {200, 400, 404}

NextPipeline ==
    \/ \E c \in {1} : Construct(c)
    \/ \E c \in {1}, k \in Slots, tool_name \in ToolNames :
          invokes < MaxPipelineInvokes /\ StartInvoke(c, k, tool_name)
    \/ \E c \in {1}, k \in Slots, status \in PipelineStatuses, header \in {None, "s1"} :
          RecvHeaders(c, k, status, header)
    \/ \E c \in {1}, k \in Slots, response_text \in PipelineBodies :
          RecvBody(c, k, response_text)
    \/ \E c \in {1}, k \in Slots : NetFail(c, k)
    \/ \E c \in {1}, k \in Slots : PostCall(c, k)

SpecPipeline == Init /\ [][NextPipeline]_vars

(***************************************************************************)
(* The requests of one client that issues its invokes one after another,   *)
(* over the parameter mappings and ids a caller may pass.                  *)
(***************************************************************************)
MaxRequestInvokes == 1

\* parameter values: absent, and the values Python counts as false, and one
\* that it counts as true
ParamValues == {JNull, JBool(FALSE), JInt(0), JStr(<<>>), JStr(Lit("x"))}
ParamMappings == [{"term", "retmax"} -> ParamValues] \cup {<<>>}

IdLists ==
    {JList(<<>>), JList(<<JStr(Lit("1"))>>), JList(<<JStr(Lit("1")), JStr(Lit("2"))>>),
     JList(<<JStr(Lit("1")), JStr(Lit("2")), JStr(Lit("3"))>>)}
IdStrings == {JStr(<<>>), JStr(Lit("1")), JStr(<<Ch("1"), Ch(","), Ch("2")>>)}
IdInputs == IdLists \cup IdStrings

StagedResult ==
    JDict([k \in {"structuredContent"} |->
             JDict([j \in {"data_access_id"} |-> JStr(Lit("d1"))])])
RequestBodies == {OkBody, Whole(Envelope("result", StagedResult)), <<>>}

NextRequests ==
    \/ \E c \in {1} : Construct(c)
    \/ \E c \in {1}, k \in {1}, params \in ParamMappings :
          /\ invokes < MaxRequestInvokes
          /\ _call(c, k, Lit("entrez_query"), params, "_call", JNull)
    \/ \E c \in {1}, k \in {1}, api \in IdMethods, ids \in IdInputs,
             detail_level \in {JNull, JStr(Lit("brief"))} :
          /\ invokes < MaxRequestInvokes
          /\ IdCall(c, k, api, JStr(Lit("pubmed")), ids, detail_level)
    \/ \E c \in {1}, k \in {1}, header \in {None, "s1"} : RecvHeaders(c, k, 200, header)
    \/ \E c \in {1}, k \in {1}, response_text \in RequestBodies :
          RecvBody(c, k, response_text)
    \/ \E c \in {1}, k \in {1} : NetFail(c, k)
    \/ \E c \in {1}, k \in {1} : PostCall(c, k)

SpecRequests == Init /\ [][NextRequests]_vars

(***************************************************************************)
(* One client that issues its invokes one after another and has its        *)
(* responses rejected at every step of the pipeline.                       *)
(***************************************************************************)
MaxRejectedInvokes == 2

RejectedBodies ==
    {OkBody, ErrorBody, GarbageBody, Whole(Envelope("result", SentinelResult))}

NextRejected ==
    \/ \E c \in {1} : Construct(c)
    \/ \E c \in {1}, k \in {1}, tool_name \in Tools :
          invokes < MaxRejectedInvokes /\ StartInvoke(c, k, tool_name)
    \/ \E c \in {1}, k \in {1}, status \in Statuses, header \in HeaderValues :
          RecvHeaders(c, k, status, header)
    \/ \E c \in {1}, k \in {1}, response_text \in RejectedBodies :
          RecvBody(c, k, response_text)
    \/ \E c \in {1}, k \in {1} : NetFail(c, k)
    \/ \E c \in {1}, k \in {1} : PostCall(c, k)

SpecRejected == Init /\ [][NextRejected]_vars

(***************************************************************************)
(* Session protocol (Spec).                                                *)
(***************************************************************************)
\* the invoke in slot k of client c puts a request on the wire in this step
Sends(c, k) == tasks[c][k].pc # "headers" /\ tasks'[c][k].pc = "headers"

\* the invokes in flight and the one that finished last
Invokes == {tasks[c][k] : c \in Live, k \in Slots} \cup {last}

\* the invokes of client c awaiting the response to their handshake
Handshaking(c) ==
    {k \in Slots : tasks[c][k].method = "initialize" /\ tasks[c][k].pc \in {"headers", "body"}}

\* C1 as stated: once a response to a client carried a session id, every
\* request the client sends afterwards carries the Mcp-Session-Id header with
\* that session id (the first id is taken for "that" id).
C1_EchoesFirst ==
    [][\A c \in Live, k \in Slots :
          (Sends(c, k) /\ obs[c].first # None) => tasks'[c][k].sid = obs[c].first]_vars

\* C1 amended: once a response to a client carried a non-empty session id,
\* every request the client sends afterwards (initialize or tools/call)
\* carries the Mcp-Session-Id header with the session id of the most recent
\* response that carried one.
C1_EchoesLatest ==
    [][\A c \in Live, k \in Slots :
          (Sends(c, k) /\ obs[c].latest # None) => tasks'[c][k].sid = obs[c].latest]_vars

C1_Witness ==
    \E c \in Live, k \in Slots :
       tasks[c][k].pc = "headers" /\ tasks[c][k].sid = "s2" /\ obs[c].first = "s1"

\* C2 as stated: over invokes issued one after another on one client, the
\* initialize handshake is sent exactly once.
C2_HandshakeOnce == \A c \in Live : ~obs[c].overlap => obs[c].nInit <= 1

\* C2 amended: an invoke that starts while a session id is held sends no
\* initialize request; an invoke that starts while none is held sends its
\* tools/call only after it has sent one initialize request, and has sent no
\* tools/call while that handshake is pending; no invoke sends more than one
\* initialize or more than one tools/call.
C2_HandshakeWhenNoSession ==
    \A t \in Invokes :
       t.pc # "idle" =>
          /\ Held(t.gate) => t.inits = 0
          /\ t.inits <= 1 /\ t.calls <= 1
          /\ (t.calls = 1 /\ ~Held(t.gate)) => t.inits = 1
          /\ (t.method = "initialize" /\ t.pc # "done") => t.calls = 0

C2_Witness ==
    \E c \in Live, k \in Slots :
       /\ ~obs[c].overlap /\ obs[c].nInit = 1
       /\ tasks[c][k].pc = "headers" /\ tasks[c][k].method = "tools/call"
       /\ Held(tasks[c][k].gate)

\* C3: a client that issues its invokes one after another has sent no
\* tools/call request unless an initialize handshake of that client has
\* completed successfully before.
C3_CallOnlyAfterHandshake ==
    \A c \in Live, k \in Slots :
       (tasks[c][k].calls > 0 /\ ~obs[c].overlap) => obs[c].initOk

\* C4: there is no single-flight guard: every invoke in flight that started
\* while no session id was held has sent its own initialize request, also
\* while another handshake of the client is pending, so the client has sent
\* as many initialize requests as it has handshakes pending.
C4_NoSingleFlight ==
    \A c \in Live :
       /\ \A k \in Slots :
             (tasks[c][k].pc # "idle" /\ ~Held(tasks[c][k].gate)) => tasks[c][k].inits = 1
       /\ obs[c].nInit >= Cardinality(Handshaking(c))

C4_Witness == \E c \in Live : Cardinality(Handshaking(c)) >= 2 /\ obs[c].nInit >= 2

\* C5: a newly constructed client holds no session id whatever the other
\* clients hold, and the session id a client holds changes only in a step in
\* which that client itself receives the head of a response.
C5_SessionPerClient ==
    [][/\ \A c \in Live' \ Live : session_id'[c] = None
       /\ \A c \in Live :
             session_id'[c] # session_id[c] =>
                \E k \in Slots : tasks[c][k].pc = "headers" /\ tasks'[c][k].pc = "body"]_vars

C5_Witness ==
    \E c \in Live, d \in Live :
       c # d /\ Held(session_id[c]) /\ Held(session_id[d]) /\ session_id[c] # session_id[d]

\* C6 as stated: once set, the held session id equals the first value
\* received, whatever later responses carry.
C6_KeepsFirst == \A c \in Live : obs[c].first # None => session_id[c] = obs[c].first

\* C6 amended: the session id is set the first time a response carries a
\* non-empty session header and is never cleared afterwards; in every
\* reachable state it equals the value of the most recent response that
\* carried one.
C6_HoldsLatest ==
    \A c \in Live :
       /\ session_id[c] = obs[c].latest
       /\ session_id[c] = None <=> obs[c].first = None

C6_Witness == \E c \in Live : obs[c].first = "s1" /\ session_id[c] = "s2"

\* C7: observing a response whose headers carry a session id stores that
\* id, overwriting the id held before.
C7_ObserveOverwrites ==
    [][\A c \in Live, k \in Slots, status \in Statuses, header \in SessionIds :
          RecvHeaders(c, k, status, header) => session_id'[c] = header]_vars

C7_Witness ==
    \E c \in Live, k \in Slots :
       obs[c].first = "s2" /\ session_id[c] = "s1" /\ tasks[c][k].pc = "body"

\* C14: every invoke made while a session id is held sends exactly one HTTP
\* request, its tools/call: no initialize, never zero requests and never a
\* second one, whatever the outcome of the request and of earlier invokes.
C14_ExactlyOneRequest ==
    \A t \in Invokes :
       (t.pc # "idle" /\ Held(t.gate)) => (t.inits = 0 /\ t.calls = 1)

\* C15: a step that is close() or the end of the async-with scope leaves
\* the client without an open connection resource: every connection the
\* client has opened, lazily or on scope entry, is closed after it, whatever
\* its invokes did.
C15_ReleasedOnCloseAndExit ==
    [][\A c \in Live :
          (Close(c) \/ AExit(c)) => \A i \in 1..Len(conns'[c]) : conns'[c][i]]_vars

\* C26: a client that holds a session id holds one after every step: no
\* response head (with or without a session header), failure, close() or
\* scope exit clears it.
C26_SessionNeverCleared ==
    [][\A c \in Live : Held(session_id[c]) => Held(session_id'[c])]_vars

\* an invoke that started with a session id has failed on a response, a
\* connection of its client has been closed, and the client holds an id
C26_Witness ==
    \E c \in Live :
       /\ Held(session_id[c])
       /\ \E i \in 1..Len(conns[c]) : conns[c][i]
       /\ last.pc = "done" /\ last.read /\ ~last.outcome.ok /\ Held(last.gate)
       /\ obs[c].latest = last.gate

\* C27: a client never has more than one open connection, and every
\* connection it has opened and not yet closed is the one it references.
C27_OneOpenConnection ==
    \A c \in Live : \A i \in 1..Len(conns[c]) : ~conns[c][i] => _session[c] = i

\* C28: no invoke hands a request to a connection that has been closed:
\* no invoke ends with the refusal a closed connection answers a request
\* with.
C28_NeverSendsOnClosed ==
    ~(last.pc = "done" /\ last.outcome = Raised("RuntimeError"))

(***************************************************************************)
(* Failures of an invoke (SpecPipeline).                                   *)
(***************************************************************************)
Bracketed(context) == Lit("[") \o context \o Lit("]")
HasPrefix(s, p) == Len(s) >= Len(p) /\ SubSeq(s, 1, Len(p)) = p

\* the invoke that finished last ended on a response whose body was read
Answered == last.pc = "done" /\ last.read

\* C8: every failure of an invoke reaches the caller as EntrezSDKError with
\* a message that begins with the bracketed label of the failing operation.
C8_FailuresLabelled ==
    (last.pc = "done" /\ ~last.outcome.ok) =>
       /\ last.outcome.exc = "EntrezSDKError"
       /\ HasPrefix(last.outcome.msg, Bracketed(Context(last)))

\* C9: a response with status >= 400 fails with the labelled HTTP error that
\* carries the status code and the raw body, or the reason when the body is
\* empty, whatever the body is.
C9_HttpErrorCarriesStatusAndBody ==
    (Answered /\ last.status >= 400) =>
       /\ ~last.outcome.ok
       /\ last.outcome.exc = "EntrezSDKError"
       /\ last.outcome.msg =
             Bracketed(Context(last))
                \o <<Ch(" HTTP "), Ch(ToString(last.status)), Ch(": ")>>
                \o (IF last.body = <<>> THEN Reason(last.status) ELSE last.body)

C9_Witness == Answered /\ last.status = 400 /\ last.body = OkBody /\ ~last.outcome.ok

\* C10: a response with status < 400 whose decoded object has an error
\* field fails with the protocol error whose message is error.message when
\* present, else the stringified error.
C10_ErrorFieldIsProtocolError ==
    LET decoded == _parse_response_text(last.body) IN
    (/\ Answered /\ last.status < 400
     /\ decoded.ok /\ IsDict(decoded.value) /\ HasKey(decoded.value, "error")) =>
       LET error == decoded.value.d["error"]
           text == IF IsDict(error) /\ HasKey(error, "message")
                   THEN Format(error.d["message"])
                   ELSE Dumps(error)
       IN last.outcome = SDKError(Bracketed(Context(last)) \o Lit(" MCP Error: ") \o text)

(***************************************************************************)
(* Outcome of a response, stage by stage (SpecPipeline).                   *)
(***************************************************************************)
\* the response the finished invoke ended on decoded to a JSON object
\* without an error field
SuccessEnvelope ==
    /\ Answered /\ last.status < 400
    /\ _parse_response_text(last.body).ok
    /\ IsDict(_parse_response_text(last.body).value)
    /\ ~HasKey(_parse_response_text(last.body).value, "error")

\* result.content of that response, null when there is none
ResultContent ==
    LET result == Get(_parse_response_text(last.body).value, "result") IN
    IF IsDict(result) THEN Get(result, "content") ELSE JNull

\* the positions of the error-sentinel text blocks of a content list
SentinelPositions(content) ==
    {i \in 1..Len(content.l) :
        LET block == content.l[i] IN
        /\ IsDict(block) /\ HasKey(block, "type") /\ HasKey(block, "text")
        /\ block.d["type"] = JStr(Lit("text")) /\ IsStr(block.d["text"])
        /\ Strip(block.d["text"].s) # <<>>
        /\ Head(Strip(block.d["text"].s)) = ErrorMarker}

HasSentinel(content) == IsList(content) /\ SentinelPositions(content) # {}

\* C11: when result.content of a successful envelope contains an
\* error-sentinel text block, the invoke fails with the labelled application
\* error whose message is the trimmed text of the first sentinel block in
\* content order, also when other text blocks precede it.
C11_FirstSentinelIsMessage ==
    (SuccessEnvelope /\ HasSentinel(ResultContent)) =>
       LET content == ResultContent
           first == CHOOSE i \in SentinelPositions(content) :
                       \A j \in SentinelPositions(content) : i <= j
       IN last.outcome =
             SDKError(Bracketed(Context(last)) \o <<SP>>
                         \o Strip(content.l[first].d["text"].s))

C11_Witness ==
    /\ SuccessEnvelope /\ last.method = "tools/call"
    /\ last.body = Whole(Envelope("result", TwoSentinelResult))
    /\ last.outcome.msg = Lit("[") \o last.context \o Lit("]") \o <<SP>> \o OtherSentinelText

\* the result of that response has structuredContent and no error sentinel
Structured ==
    /\ SuccessEnvelope
    /\ IsDict(Get(_parse_response_text(last.body).value, "result"))
    /\ HasKey(Get(_parse_response_text(last.body).value, "result"), "structuredContent")
    /\ ~HasSentinel(ResultContent)

\* S with key content set to C
WithContent(S, C) ==
    JDict([k \in DOMAIN S.d \cup {"content"} |-> IF k = "content" THEN C ELSE S.d[k]])

\* C12 as stated: for a non-failing result with structuredContent S the
\* normalized value is a copy of S, and when result.content C is present it is
\* S with key content set to C (overwriting a content key of S), every other
\* key of S unchanged; whatever S is.
C12_CopyOfStructured ==
    Structured =>
       LET result == Get(_parse_response_text(last.body).value, "result")
           S == result.d["structuredContent"]
       IN IF HasKey(result, "content")
          THEN IsDict(S) /\ last.outcome = Returned(WithContent(S, result.d["content"]))
          ELSE last.outcome = Returned(S)

\* C12 amended: when S is an object the normalized value is a copy of S,
\* with key content set to C when result.content C is present (overwriting a
\* content key of S, every other key of S unchanged); when S is not an object
\* the normalized value is S itself if result.content is absent and the
\* object {content: C} alone, without S, if it is present.
C12_CopyOfStructuredObject ==
    Structured =>
       LET result == Get(_parse_response_text(last.body).value, "result")
           S == result.d["structuredContent"]
       IN IF HasKey(result, "content")
          THEN IF IsDict(S)
               THEN last.outcome = Returned(WithContent(S, result.d["content"]))
               ELSE last.outcome = Returned(JDict([k \in {"content"} |-> result.d["content"]]))
          ELSE last.outcome = Returned(S)

C12_Witness ==
    /\ Structured /\ last.method = "tools/call"
    /\ last.body = Whole(Envelope("result", StructuredResult))
    /\ last.outcome.ok
    /\ last.outcome.value.d["a"] = JInt(1)
    /\ last.outcome.value.d["content"] = JList(<<TextBlock(Lit("ok"))>>)

\* the data: payload of a segment, and whether it has one that parses
SegmentPayload(segment) == JoinLF(DataLines(SplitLines(segment, <<>>)))
Parseable(segment) ==
    DataLines(SplitLines(segment, <<>>)) # <<>> /\ JsonLoads(SegmentPayload(segment)).ok

\* the finished invoke ended on a body read as an event stream: not blank
\* and not one JSON document
EventStream ==
    /\ Answered /\ last.status < 400
    /\ Strip(last.body) # <<>>
    /\ ~JsonLoads(last.body).ok

\* C16: for an SSE body the decoded response is the payload of the first
\* segment in stream order whose joined data: lines parse as JSON; segments
\* before it without data: lines or with unparseable payloads are skipped,
\* the segments after it are ignored, and the invoke ends as that response
\* makes it end.
C16_FirstParseableSegment ==
    LET segments == Segments(last.body) IN
    (EventStream /\ \E i \in 1..Len(segments) : Parseable(segments[i])) =>
       LET first == CHOOSE i \in 1..Len(segments) :
                       /\ Parseable(segments[i])
                       /\ \A j \in 1..(i - 1) : ~Parseable(segments[j])
           decoded == JsonLoads(SegmentPayload(segments[first])).value
       IN /\ _parse_response_text(last.body) = Returned(decoded)
          /\ last.outcome = HandleResult(Bracketed(Context(last)), decoded)

C16_Witness ==
    /\ EventStream /\ last.method = "tools/call"
    /\ last.body = SseStream(Envelope("result", OkResult), Envelope("error", ErrorObject))
    /\ last.outcome = Returned(OkResult)

\* a body that is empty once trimmed, or decodes to an object with neither
\* a result nor an error field
Resultless(response_text) ==
    \/ Strip(response_text) = <<>>
    \/ /\ _parse_response_text(response_text).ok
       /\ IsDict(_parse_response_text(response_text).value)
       /\ ~HasKey(_parse_response_text(response_text).value, "result")
       /\ ~HasKey(_parse_response_text(response_text).value, "error")

\* the bodies of the pipeline runs that are of this kind
ResultlessBodies == {response_text \in PipelineBodies : Resultless(response_text)}

\* C17: a response with status < 400 whose body is empty, or whose decoded
\* object has no result field and no error field, does not fail: read as the
\* response to tools/call it makes the invoke return None, read as the
\* response to initialize it lets the invoke go on to its tools/call.
C17_ResultlessSucceeds ==
    [][\A c \in Live, k \in Slots, response_text \in ResultlessBodies :
          (tasks[c][k].pc = "body" /\ tasks[c][k].status < 400
             /\ RecvBody(c, k, response_text)) =>
             IF tasks[c][k].method = "initialize"
             THEN tasks'[c][k].pc = "initialized"
             ELSE last'.pc = "done" /\ last'.outcome = Returned(JNull)]_vars

C17_Witness ==
    /\ Answered /\ last.status = 200 /\ last.method = "tools/call"
    /\ last.body = <<>> /\ last.outcome = Returned(JNull)

\* C19: the steps short-circuit in the order HTTP status, body parse, error
\* field, error sentinel, reshape, and a response that meets several failure
\* conditions fails at the earliest: with status >= 400 the failure is the
\* HTTP error whatever the body; below 400 a body that does not decode fails
\* as the decoding failed; an error field beside a sentinel in result.content
\* fails at the error field, never with the sentinel's message; a sentinel
\* beside structuredContent fails and is not reshaped.
C19_EarliestFailureWins ==
    Answered =>
       LET label == Bracketed(Context(last))
           decoded == _parse_response_text(last.body)
       IN IF last.status >= 400
          THEN ~last.outcome.ok /\ HasPrefix(last.outcome.msg, label \o Lit(" HTTP "))
          ELSE IF ~decoded.ok
          THEN last.outcome = decoded
          ELSE IF IsDict(decoded.value) /\ HasKey(decoded.value, "error")
          THEN /\ ~last.outcome.ok
               /\ IsDict(decoded.value.d["error"]) =>
                     HasPrefix(last.outcome.msg, label \o Lit(" MCP Error: "))
               /\ HasSentinel(ResultContent) =>
                     ~HasPrefix(last.outcome.msg, label \o <<SP, ErrorMarker>>)
          ELSE (IsDict(decoded.value) /\ HasSentinel(ResultContent)) =>
                  ~last.outcome.ok /\ HasPrefix(last.outcome.msg, label \o <<SP, ErrorMarker>>)

C19_Witness ==
    /\ Answered /\ last.status = 200 /\ last.method = "tools/call"
    /\ last.body = Whole(ErrorAndResult(ErrorObject, SentinelResult))
    /\ last.outcome.msg =
          Lit("[") \o last.context \o <<Ch("]"), Ch(" MCP Error: "), Ch("Invalid database")>>

\* C20: a body with status < 400 that is not blank, is not one JSON
\* document and has no segment whose data: payload parses as JSON makes the
\* invoke fail with the parse error of the event-stream decoder; it never
\* yields a result.
C20_UndecodableBodyFails ==
    (EventStream /\ \A i \in 1..Len(Segments(last.body)) : ~Parseable(Segments(last.body)[i])) =>
       /\ ~last.outcome.ok
       /\ last.outcome.exc = "EntrezSDKError"
       /\ last.outcome.msg = NoPayloadMessage

C20_Witness ==
    /\ EventStream /\ last.method = "tools/call"
    /\ last.body = <<Half1(Envelope("result", OkResult))>>
    /\ ~last.outcome.ok

\* the lines of the event stream the finished invoke ended on whose trimmed
\* text begins with data: in any case
StreamDataLines ==
    LET segments == Segments(last.body)
        lines == UNION {{SplitLines(segments[i], <<>>)[j] :
                           j \in 1..Len(SplitLines(segments[i], <<>>))} :
                        i \in 1..Len(segments)}
    IN {line \in lines :
          Strip(line) # <<>> /\ Head(Strip(line)) \in {Ch("data:"), Ch("DATA:"), Ch("Data:")}}

\* the value of such a line: what follows the colon in the trimmed line
ValueOf(line) == Tail(Strip(line))

\* C21 as stated: for every data: line exactly one leading space is taken
\* off the value after the colon, and further leading whitespace of the
\* value is kept in the collected line.
C21_OneLeadingSpaceStripped ==
    EventStream =>
       \A line \in StreamDataLines :
          DataLines(<<line>>) =
             <<IF ValueOf(line) # <<>> /\ Head(ValueOf(line)) = SP
               THEN Tail(ValueOf(line)) ELSE ValueOf(line)>>

\* C21 amended: for every data: line all leading whitespace is taken off
\* the value after the colon: the collected line is the value from its first
\* character that is not whitespace on.
C21_LeadingWhitespaceStripped ==
    EventStream =>
       \A line \in StreamDataLines :
          \E n \in 0..Len(ValueOf(line)) :
             /\ \A i \in 1..n : IsWs(ValueOf(line)[i])
             /\ n < Len(ValueOf(line)) => ~IsWs(ValueOf(line)[n + 1])
             /\ DataLines(<<line>>) = <<SubSeq(ValueOf(line), n + 1, Len(ValueOf(line)))>>

C21_Witness ==
    /\ EventStream /\ last.method = "tools/call"
    /\ last.body = SseBody(Envelope("result", OkResult))
    /\ <<Ch("DATA:"), SP, SP, Half2(Envelope("result", OkResult))>> \in StreamDataLines
    /\ last.outcome = Returned(OkResult)

\* C22: a response with status < 400 that decodes to an object without an
\* error field fails, as an application error, if and only if result.content
\* is a list with at least one block of type text whose trimmed text begins
\* with the marker; a marker in a block of another type, after other text, or
\* in a content that is not a list, leaves the call successful.
C22_FailsIffSentinel ==
    SuccessEnvelope =>
       IF HasSentinel(ResultContent)
       THEN /\ ~last.outcome.ok /\ last.outcome.exc = "EntrezSDKError"
            /\ HasPrefix(last.outcome.msg, Bracketed(Context(last)) \o <<SP, ErrorMarker>>)
       ELSE last.outcome.ok

C22_Witness ==
    /\ SuccessEnvelope /\ last.method = "tools/call"
    /\ last.body = Whole(Envelope("result", MarkerInImageResult))
    /\ last.outcome = Returned(MarkerInImageResult)

\* the invoke that finished last ended in its initialize handshake
HandshakeFailed == last.pc = "done" /\ last.method = "initialize"

\* C24: an invoke whose initialize handshake fails has sent no tools/call
\* request and fails with the error of the handshake: the outcome of its
\* response under the label initialize (the network error under that label
\* when no response was read), and no message under the tool name.
C24_HandshakeFailureEndsInvoke ==
    HandshakeFailed =>
       /\ ~last.outcome.ok
       /\ last.calls = 0 /\ last.inits = 1
       /\ last.outcome =
             IF last.read
             THEN HandleResponse(Lit("initialize"), last.status, Reason(last.status),
                                 last.body)
             ELSE NetworkError(Lit("initialize"))
       /\ ~HasPrefix(last.outcome.msg, Bracketed(last.context))
       /\ (last.outcome.exc = "EntrezSDKError" /\ last.outcome.msg # NoPayloadMessage) =>
             HasPrefix(last.outcome.msg, Bracketed(Lit("initialize")))

\* a handshake answered with an error sentinel has ended the invoke of
\* entrez_query under the label initialize, with no tools/call sent
C24_Witness ==
    /\ HandshakeFailed /\ last.read /\ last.calls = 0
    /\ last.context = Lit("entrez_query")
    /\ last.status = 200
    /\ last.body = Whole(Envelope("result", SentinelResult))
    /\ HasPrefix(last.outcome.msg, Bracketed(Lit("initialize")))

(***************************************************************************)
(* The session id over rejected responses (SpecRejected).                  *)
(***************************************************************************)
\* C23: a session id carried in the head of a response is stored whatever
\* the status; the step that then rejects the response (status >= 400,
\* undecodable body, error field, sentinel, network failure while reading)
\* and ends the invoke leaves the stored id as it is; and the next request
\* of the client carries the id held.
C23_RejectedResponseSetsSession ==
    [][\A c \in Live, k \in Slots :
          /\ \A status \in Statuses, header \in SessionIds :
                RecvHeaders(c, k, status, header) => session_id'[c] = header
          /\ (tasks[c][k].pc = "body" /\ tasks'[c][k].pc = "idle") =>
                session_id'[c] = session_id[c]
          /\ (Sends(c, k) /\ Held(session_id[c])) => tasks'[c][k].sid = session_id[c]]_vars

\* an invoke that started without a session id has failed on a response it
\* read, and the next invoke sends its tools/call with the id that response
\* carried
C23_Witness ==
    /\ last.pc = "done" /\ last.read /\ ~last.outcome.ok /\ last.gate = None
    /\ last.method = "initialize"
    /\ session_id[1] = "s1"
    /\ tasks[1][1].pc = "headers" /\ tasks[1][1].method = "tools/call"
    /\ tasks[1][1].sid = "s1"

\* an invoke of client c starts in slot k in this step
Starts(c, k) == tasks[c][k].pc = "idle" /\ invokes' = invokes + 1 /\ tasks'[c][k].pc # "idle"

\* C25: an invoke that starts while its client holds no session id sends
\* an initialize request first, whatever happened to the handshakes before
\* it; its tools/call goes out only after that handshake has returned.
C25_HandshakeAgainWithoutSession ==
    [][\A c \in Live, k \in Slots :
          /\ (Starts(c, k) /\ ~Held(session_id[c])) =>
                /\ tasks'[c][k].pc = "headers" /\ tasks'[c][k].method = "initialize"
                /\ tasks'[c][k].inits = 1 /\ tasks'[c][k].calls = 0
                /\ obs'[c].nInit = obs[c].nInit + 1
          /\ (/\ Sends(c, k) /\ tasks'[c][k].method = "tools/call"
              /\ ~Held(tasks'[c][k].gate)) =>
                tasks[c][k].pc = "initialized" /\ tasks'[c][k].inits = 1]_vars

\* the first invoke failed in its handshake and left no session id; the
\* second made the handshake again, got a session id and has sent its
\* tools/call with it
C25_Witness ==
    /\ HandshakeFailed /\ ~last.outcome.ok
    /\ obs[1].nInit = 2
    /\ tasks[1][1].gate = None /\ tasks[1][1].inits = 1
    /\ tasks[1][1].pc = "headers" /\ tasks[1][1].method = "tools/call"
    /\ tasks[1][1].sid = "s1"

(***************************************************************************)
(* The tools/call request of an invoke (SpecRequests).                     *)
(***************************************************************************)
\* C13: the arguments of the tools/call request an invoke sends have exactly
\* the keys of the params whose value is not None, each with the value
\* passed: False, 0 and the empty string are transmitted.
C13_ArgumentsAreNonNoneParams ==
    \A t \in Invokes :
       t.calls = 1 =>
          /\ \A key \in DOMAIN t.params :
                IF t.params[key] = JNull
                THEN key \notin DOMAIN t.arguments
                ELSE key \in DOMAIN t.arguments /\ t.arguments[key] = t.params[key]
          /\ DOMAIN t.arguments \subseteq DOMAIN t.params

C13_Witness ==
    /\ last.pc = "done" /\ last.calls = 1
    /\ last.params = [key \in {"term", "retmax"} |->
                         IF key = "term" THEN JNull ELSE JBool(FALSE)]
    /\ DOMAIN last.arguments = {"retmax"}
    /\ last.arguments["retmax"] = JBool(FALSE)

\* the ids of a list written as one string with a comma between them
RECURSIVE CommaSeparated(_)
CommaSeparated(items) ==
    IF items = <<>> THEN <<>>
    ELSE IF Len(items) = 1 THEN items[1].s
    ELSE CommaSeparated(SubSeq(items, 1, Len(items) - 1)) \o <<Ch(",")>> \o items[Len(items)].s

\* C18: an id-taking method called with a list of ids sends the tools/call
\* that the same method sends when called with the comma-joined string of
\* those ids: the same tool name and the same arguments, ids included.
C18_ListAsJoinedString ==
    \A t \in Invokes :
       (t.calls = 1 /\ t.api \in IdMethods /\ IsList(t.ids)) =>
          LET joined == JStr(CommaSeparated(t.ids.l))
              detail_level == IF "detail_level" \in DOMAIN t.params
                              THEN t.params["detail_level"] ELSE JNull
              call == MethodCall(t.api, t.params["database"], joined, detail_level)
          IN /\ t.arguments["ids"] = joined
             /\ t.context = call.tool
             /\ t.arguments = cleaned_params(call.params)

C18_Witness ==
    /\ last.pc = "done" /\ last.calls = 1 /\ last.api = "summary"
    /\ last.ids = JList(<<JStr(Lit("1")), JStr(Lit("2"))>>)
    /\ last.arguments["ids"] = JStr(<<Ch("1"), Ch(","), Ch("2")>>)
    /\ "detail_level" \in DOMAIN last.arguments
    /\ last.arguments["detail_level"] = JStr(Lit("brief"))

====
